---- MODULE Spec2Model ----
(***************************************************************************)
(* Model of model_validation/vivarium_output_processing.py: the module's   *)
(* process-wide INDEX_COLUMNS list and its public functions, applied by a  *)
(* caller to a DataFrame.  A DataFrame is a record of its column labels,   *)
(* the names of its index levels and its rows; the pandas operations the   *)
(* module calls (groupby/sum, set_index, reset_index, aligned arithmetic,  *)
(* dropna, unique, describe) are operators computing what pandas computes. *)
(***************************************************************************)
EXTENDS Integers, Sequences, FiniteSets, TLC

VARIABLES
    INDEX_COLUMNS,  \* the module global (a list of column labels)
    df,             \* the DataFrame the caller holds
    calls,          \* the calls that made out: a call on df, then calls chained on its result
    out             \* what the last call returned or raised

vars == <<INDEX_COLUMNS, df, calls, out>>

-----------------------------------------------------------------------------
(* Module constants                                                        *)

VALUE_COLUMN == "value"
DRAW_COLUMN == "input_draw"
SCENARIO_COLUMN == "scenario"
MEASURE_COLUMN == "measure"

\* the initial value of the global
DEFAULT_INDEX_COLUMNS == <<DRAW_COLUMN, SCENARIO_COLUMN>>

-----------------------------------------------------------------------------
(* Bounds of the explored inputs                                           *)

\* a DataFrame handed to the module has 1..MaxRows rows
MaxRows == 2
\* the value column of an input holds integers 0..MaxValue
MaxValue == 1

-----------------------------------------------------------------------------
(* Python values                                                           *)

\* None, a single column label, and a list of column labels
None == [kind |-> "None"]
Label(c) == [kind |-> "label", name |-> c]
List(s) == [kind |-> "list", names |-> s]
\* a scalar passed where None is also accepted (an id of difference)
Scalar(v) == [kind |-> "scalar", val |-> v]

\* a raised exception, with the function and source line that raises it
Raise(type, site) == [raised |-> type, site |-> site]
IsError(x) == "raised" \in DOMAIN x
IsTable(x) == "rows" \in DOMAIN x

\* the rest of a function body runs only if no exception has been raised
Bind(x, F(_)) == IF IsError(x) THEN x ELSE F(x)

-----------------------------------------------------------------------------
(* Sequences                                                               *)

Range(s) == {s[i] : i \in DOMAIN s}
NoDup(s) == \A i, j \in DOMAIN s : s[i] = s[j] => i = j
\* Index.get_loc: the position of a label, counted from 0
get_loc(s, x) == (CHOOSE i \in DOMAIN s : s[i] = x) - 1
\* the elements of s not in S, in the order of s
Without(s, S) == SelectSeq(s, LAMBDA x : x \notin S)
InsertAt(s, i, x) == SubSeq(s, 1, i - 1) \o <<x>> \o SubSeq(s, i, Len(s))


\* the labels the model uses, in the order Python sorts strings
ColumnOrder ==
    << "2.5%", "50%", "97.5%", "count", "denominator_measure", "input_draw",
       "lower", "max", "mean", "measure", "min", "multiplier",
       "numerator_measure", "scenario", "sex", "std", "subtracted_from",
       "subtracted_value", "upper", "value" >>

\* Index.difference(other).to_list(): the labels of cols not in other, sorted
IndexDifference(cols, other) ==
    SelectSeq(ColumnOrder, LAMBDA c : c \in Range(cols) \ Range(other))

-----------------------------------------------------------------------------
(* float64 cells.  A cell of a value column is <<n, d>>: the number n/d in *)
(* lowest terms with d > 0, or <<1, 0>> = inf, <<-1, 0>> = -inf,           *)
(* <<0, 0>> = NaN.  A cell of an identifier column is an integer code,     *)
(* -1 standing for a missing label (NaN).                                  *)

NaN == <<0, 0>>
NaNCode == 0 - 1
Num(v) == <<v, 1>>
IsNaN(x) == x = NaN

Abs(x) == IF x < 0 THEN 0 - x ELSE x
Sgn(x) == IF x > 0 THEN 1 ELSE IF x < 0 THEN 0 - 1 ELSE 0

RECURSIVE GCD(_, _)
GCD(a, b) == IF b = 0 THEN a ELSE GCD(b, a % b)

Norm(n, d) ==
    IF d = 0 THEN <<Sgn(n), 0>>
    ELSE LET g == GCD(Abs(n), Abs(d))
         IN  <<(Sgn(d) * n) \div g, Abs(d) \div g>>

Neg(x) == <<0 - x[1], x[2]>>

Add(x, y) ==
    IF IsNaN(x) \/ IsNaN(y) THEN NaN
    ELSE IF x[2] = 0 /\ y[2] = 0 THEN (IF x[1] = y[1] THEN x ELSE NaN)
    ELSE IF x[2] = 0 THEN x
    ELSE IF y[2] = 0 THEN y
    ELSE Norm(x[1] * y[2] + y[1] * x[2], x[2] * y[2])

Sub(x, y) == Add(x, Neg(y))

\* x / y as float64 division: a finite x over 0 is +-inf, 0/0 is NaN
Div(x, y) ==
    IF IsNaN(x) \/ IsNaN(y) THEN NaN
    ELSE IF y[1] < 0 THEN Norm((0 - x[1]) * y[2], x[2] * (0 - y[1]))
    ELSE Norm(x[1] * y[2], x[2] * y[1])

\* x * m for an integer m
Mul(x, m) == IF x[2] = 0 THEN <<Sgn(x[1] * m), 0>> ELSE Norm(x[1] * m, x[2])

\* x < y for finite cells
Less(x, y) == x[1] * y[2] < y[1] * x[2]

-----------------------------------------------------------------------------
(* DataFrames: [columns, index, rows].  index is the list of the names of  *)
(* the index levels, <<>> for the default RangeIndex; a row maps every     *)
(* column label and every index level name to its cell.                    *)

Labels(t) == Range(t.columns) \cup Range(t.index)
KeyOf(row, names) == [i \in 1..Len(names) |-> row[names[i]]]
RestrictRow(row, S) == [c \in S |-> row[c]]
Positions(s) == [i \in 1..Len(s) |-> i]

\* lexicographic order of two key tuples of the same levels; cells are
\* compared with < only where they differ
LexLess(a, b) ==
    \E i \in DOMAIN a :
        /\ \A j \in 1..(i - 1) : a[j] = b[j]
        /\ a[i] # b[i]
        /\ a[i] < b[i]

RECURSIVE SortKeys(_)
SortKeys(S) ==
    IF S = {} THEN <<>>
    ELSE LET m == CHOOSE k \in S : \A o \in S : o = k \/ LexLess(k, o)
         IN  <<m>> \o SortKeys(S \ {m})

\* a faulty sum: count() in place of sum()
SumCells_count(s) == Num(Len(SelectSeq(s, LAMBDA x : ~IsNaN(x))))

\* sum() of a group: NaN cells are skipped, an empty sum is 0
RECURSIVE SumCells(_)
SumCells(s) ==
    IF s = <<>> THEN Num(0)
    ELSE IF IsNaN(Head(s)) THEN SumCells(Tail(s))
    ELSE Add(Head(s), SumCells(Tail(s)))

\* the rows of a group's sum: one per observed key, in sorted key order
GroupRows(t, by, value_cols, keys) ==
    [i \in 1..Len(keys) |->
        LET members == SelectSeq(t.rows, LAMBDA r : KeyOf(r, by) = keys[i])
        IN  [c \in Range(by) \cup Range(value_cols) |->
                IF c \in Range(by) THEN keys[i][get_loc(by, c) + 1]
                ELSE SumCells([j \in 1..Len(members) |-> members[j][c]])]]

\* df.groupby(by, observed=True)[value_cols].sum(): by may name columns or
\* index levels; rows with a missing key are left out; the result is
\* indexed by `by` and sorted by key
groupby_sum(t, by, value_cols, site) ==
    IF by = <<>> /\ t.rows # <<>> THEN Raise("ValueError", site)
    ELSE IF \E c \in Range(by) \cup Range(value_cols) : c \notin Labels(t)
        THEN Raise("KeyError", site)
    ELSE LET present == {KeyOf(t.rows[i], by) : i \in DOMAIN t.rows}
             keys == SortKeys({k \in present : \A i \in DOMAIN k : k[i] # NaNCode})
         IN  [columns |-> value_cols, index |-> by,
              rows |-> GroupRows(t, by, value_cols, keys)]

\* df.set_index(keys, append): the columns become index levels; an empty
\* list of keys cannot make an index
set_index(t, keys, append, site) ==
    IF keys = <<>> THEN Raise("ValueError", site)
    ELSE IF \E c \in Range(keys) : c \notin Range(t.columns) THEN Raise("KeyError", site)
    ELSE LET cols == Without(t.columns, Range(keys))
             idx == (IF append THEN t.index ELSE <<>>) \o keys
         IN  [columns |-> cols, index |-> idx,
              rows |-> [i \in DOMAIN t.rows |->
                          RestrictRow(t.rows[i], Range(cols) \cup Range(idx))]]

\* df.reset_index(): the index levels become the first columns; a level
\* name that is already a column, or that occurs twice, cannot be inserted.
\* The module only resets an index that has named levels.
reset_index(t, site) ==
    IF ~NoDup(t.index) \/ Range(t.index) \cap Range(t.columns) # {}
        THEN Raise("ValueError", site)
    ELSE [columns |-> t.index \o t.columns, index |-> <<>>, rows |-> t.rows]

\* df[cols] for a list of column labels
SelectColumns(t, cols, site) ==
    IF \E c \in Range(cols) : c \notin Range(t.columns) THEN Raise("KeyError", site)
    ELSE [columns |-> cols, index |-> t.index,
          rows |-> [i \in DOMAIN t.rows |->
                      RestrictRow(t.rows[i], Range(cols) \cup Range(t.index))]]

\* df[df[col] == v] and df[df[col] != v]
FilterRows(t, col, v, equal, site) ==
    IF col \notin Range(t.columns) THEN Raise("KeyError", site)
    ELSE [t EXCEPT !.rows = SelectSeq(t.rows, LAMBDA r : (r[col] = v) = equal)]

-----------------------------------------------------------------------------
(* Aligned arithmetic of two DataFrames (left - right, left / right):      *)
(* pandas joins the two indexes (how = outer) unless they are equal, and   *)
(* combines the cells of the rows the join pairs, a side without a row     *)
(* giving NaN.  A pairing is [key, l, r]: the index cells of the result    *)
(* row and the positions of the paired rows (0 = no row).                  *)

IndexKeys(t) == [i \in DOMAIN t.rows |-> KeyOf(t.rows[i], t.index)]

\* Index.equals: same number of levels and the same labels in the same
\* order; the names of the levels are not compared
IndexEquals(l, r) == Len(l.index) = Len(r.index) /\ IndexKeys(l) = IndexKeys(r)

PairsEqual(l) ==
    [i \in DOMAIN l.rows |-> [key |-> RestrictRow(l.rows[i], Range(l.index)), l |-> i, r |-> i]]

\* the positions of the rows of t whose cells at `on` are k
RowsAt(t, on, k) == SelectSeq(Positions(t.rows), LAMBDA i : KeyOf(t.rows[i], on) = k)

\* all pairs of L and R, or each position of one side alone if the other is empty
Matches(L, R) ==
    IF R = <<>> THEN [i \in DOMAIN L |-> <<L[i], 0>>]
    ELSE IF L = <<>> THEN [i \in DOMAIN R |-> <<0, R[i]>>]
    ELSE [i \in 1..(Len(L) * Len(R)) |->
            <<L[((i - 1) \div Len(R)) + 1], R[((i - 1) % Len(R)) + 1]>>]

RECURSIVE JoinKeys(_, _, _, _)
JoinKeys(l, r, on, keys) ==
    IF keys = <<>> THEN <<>>
    ELSE Matches(RowsAt(l, on, Head(keys)), RowsAt(r, on, Head(keys)))
            \o JoinKeys(l, r, on, Tail(keys))

\* the outer join on the shared levels `on` (Index.join for equal names,
\* Index._join_multi for two MultiIndexes): every key of either side, in
\* sorted order; the levels only one side has follow the shared ones and
\* are missing (-1) where that side has no row
OuterJoin(l, r, on) ==
    LET ldrop == Without(l.index, Range(on))
        rdrop == Without(r.index, Range(on))
        keys == SortKeys({KeyOf(l.rows[i], on) : i \in DOMAIN l.rows}
                         \cup {KeyOf(r.rows[i], on) : i \in DOMAIN r.rows})
        m == JoinKeys(l, r, on, keys)
    IN  [i \in DOMAIN m |->
            [key |-> [c \in Range(on) \cup Range(ldrop) \cup Range(rdrop) |->
                        IF c \in Range(on)
                            THEN (IF m[i][1] # 0 THEN l.rows[m[i][1]][c] ELSE r.rows[m[i][2]][c])
                        ELSE IF c \in Range(ldrop)
                            THEN (IF m[i][1] # 0 THEN l.rows[m[i][1]][c] ELSE NaNCode)
                        ELSE (IF m[i][2] # 0 THEN r.rows[m[i][2]][c] ELSE NaNCode)],
             l |-> m[i][1], r |-> m[i][2]]]

\* Index._join_level: a one-level index against a MultiIndex that has its
\* level.  The result has the rows of the MultiIndex, each paired with the
\* row of the one-level index at its label, if any.
JoinLevel(multi, flat, multiIsLeft) ==
    [i \in DOMAIN multi.rows |->
        LET at == RowsAt(flat, flat.index, KeyOf(multi.rows[i], flat.index))
            j == IF at = <<>> THEN 0 ELSE at[1]
        IN  [key |-> RestrictRow(multi.rows[i], Range(multi.index)),
             l |-> IF multiIsLeft THEN i ELSE j,
             r |-> IF multiIsLeft THEN j ELSE i]]

\* left.align(right, join="outer") on the index: [index, pairs] or an error
Align(l, r, site) ==
    LET overlap == SelectSeq(l.index, LAMBDA c : c \in Range(r.index))
    IN  IF IndexEquals(l, r)
            THEN [index |-> l.index, pairs |-> PairsEqual(l)]
        ELSE IF l.index = r.index
            THEN [index |-> l.index, pairs |-> OuterJoin(l, r, l.index)]
        ELSE IF overlap = <<>>
            THEN Raise("ValueError", site)
        ELSE IF Len(l.index) > 1 /\ Len(r.index) > 1
            THEN [index |-> overlap \o Without(l.index, Range(overlap))
                                    \o Without(r.index, Range(overlap)),
                  pairs |-> OuterJoin(l, r, overlap)]
        ELSE IF Len(l.index) > 1
            THEN (IF ~NoDup(IndexKeys(r)) THEN Raise("NotImplementedError", site)
                  ELSE [index |-> l.index, pairs |-> JoinLevel(l, r, TRUE)])
        ELSE (IF ~NoDup(IndexKeys(l)) THEN Raise("NotImplementedError", site)
              ELSE [index |-> r.index, pairs |-> JoinLevel(r, l, FALSE)])

\* the operator applied to two cells
Operate(op, x, y) ==
    IF op = "/" THEN Div(x, y) ELSE IF op = "-" THEN Sub(x, y) ELSE Add(x, y)

\* left op right for two DataFrames with the same columns
Arith(l, r, op, site) ==
    Bind(Align(l, r, site), LAMBDA a :
        [columns |-> l.columns, index |-> a.index,
         rows |-> [i \in DOMAIN a.pairs |->
            LET p == a.pairs[i]
            IN  [c \in Range(a.index) \cup Range(l.columns) |->
                    IF c \in Range(a.index) THEN p.key[c]
                    ELSE Operate(op, IF p.l = 0 THEN NaN ELSE l.rows[p.l][c],
                                     IF p.r = 0 THEN NaN ELSE r.rows[p.r][c])]]])

\* df * multiplier
Scale(t, m) ==
    [t EXCEPT !.rows = [i \in DOMAIN t.rows |->
        [c \in DOMAIN t.rows[i] |->
            IF c \in Range(t.columns) THEN Mul(t.rows[i][c], m) ELSE t.rows[i][c]]]]

\* df.dropna(): the rows with a NaN in some column are dropped
dropna(t) ==
    [t EXCEPT !.rows = SelectSeq(t.rows, LAMBDA r : \A c \in Range(t.columns) : ~IsNaN(r[c]))]

\* df[col] = v: a new last column holding v in every row
AssignColumn(t, col, v) ==
    [columns |-> t.columns \o <<col>>, index |-> t.index,
     rows |-> [i \in DOMAIN t.rows |->
                [c \in DOMAIN t.rows[i] \cup {col} |-> IF c = col THEN v ELSE t.rows[i][c]]]]

\* df.insert(loc, col, v), loc counted from 0
InsertColumn(t, loc, col, v) ==
    [columns |-> InsertAt(t.columns, loc + 1, col), index |-> t.index,
     rows |-> [i \in DOMAIN t.rows |->
                [c \in DOMAIN t.rows[i] \cup {col} |-> IF c = col THEN v ELSE t.rows[i][c]]]]

\* Series.unique(): the distinct cells in order of first appearance
RECURSIVE Unique(_)
Unique(s) ==
    IF s = <<>> THEN <<>>
    ELSE LET init == Unique(SubSeq(s, 1, Len(s) - 1))
             last == s[Len(s)]
         IN  IF last \in Range(init) THEN init ELSE Append(init, last)

-----------------------------------------------------------------------------
(* Private helpers of the module                                           *)

\* method1: anything that is not a list is taken as one column label
method1(colnames, t) ==
    IF colnames.kind = "list" THEN colnames.names
    ELSE IF colnames.kind = "label" THEN <<colnames.name>>
    ELSE <<"None">>

_ensure_iterable(colnames, t, default) ==
    method1(IF colnames = None THEN default ELSE colnames, t)

\* a RangeIndex has one level and no name
_ensure_columns_not_levels(t, column_list) ==
    IF Len(t.index) > 1 \/ (Len(t.index) = 1 /\ t.index[1] \in Range(column_list))
        THEN reset_index(t, "_ensure_columns_not_levels")
    ELSE t

-----------------------------------------------------------------------------
(* value, marginalize, stratify                                            *)

\* a faulty test: two arguments never conflict, so include wins
conflicting_never(include, exclude) == FALSE

\* both include and exclude are specified
conflicting(include, exclude) == include # None /\ exclude # None

\* a faulty index: the included columns without the global index columns
include_index_cols_alone(inc) == inc

\* index_cols = [*include, *INDEX_COLUMNS]
include_index_cols(inc) == inc \o INDEX_COLUMNS

value(t, include, exclude, value_cols) ==
    LET vc == _ensure_iterable(value_cols, t, None)
    IN  IF include = None THEN
            LET ex == _ensure_iterable(exclude, t, List(<<>>))
                index_cols == IndexDifference(t.columns, vc \o ex)
            IN  Bind(set_index(t, index_cols, FALSE, "value"),
                     LAMBDA x : SelectColumns(x, vc, "value"))
        ELSE IF conflicting(include, exclude)
            THEN Raise("ValueError", "value: include and exclude")
        ELSE
            LET inc == _ensure_iterable(include, t, None)
                index_cols == include_index_cols(inc)
            IN  Bind(set_index(t, index_cols, FALSE, "value"),
                     LAMBDA x : SelectColumns(x, vc, "value"))

marginalize(t, marginalized_cols, value_cols, reset) ==
    LET mc == _ensure_iterable(marginalized_cols, t, None)
        vc == _ensure_iterable(value_cols, t, None)
    IN  Bind(_ensure_columns_not_levels(t, mc), LAMBDA t1 :
            LET index_cols == IndexDifference(t1.columns, mc \o vc)
            IN  Bind(groupby_sum(t1, index_cols, vc, "marginalize"), LAMBDA summed_data :
                    IF reset THEN reset_index(summed_data, "marginalize") ELSE summed_data))

\* a faulty grouping: by the strata and the index columns the module starts with
stratify_index_cols_initial(st) == st \o DEFAULT_INDEX_COLUMNS

\* index_cols = [*strata, *INDEX_COLUMNS]
stratify_index_cols(st) == st \o INDEX_COLUMNS

stratify(t, strata, value_cols, reset) ==
    LET st == _ensure_iterable(strata, t, None)
        vc == _ensure_iterable(value_cols, t, None)
        index_cols == stratify_index_cols(st)
    IN  Bind(groupby_sum(t, index_cols, vc, "stratify"), LAMBDA summed_data :
            IF reset THEN reset_index(summed_data, "stratify") ELSE summed_data)

-----------------------------------------------------------------------------
(* ratio                                                                   *)

\* '|'.join(labels): the joined string is coded by the number whose
\* base-100 digits are the codes of the labels
RECURSIVE JoinLabels(_)
JoinLabels(s) ==
    IF s = <<>> THEN 0 ELSE JoinLabels(SubSeq(s, 1, Len(s) - 1)) * 100 + s[Len(s)]

\* '|'.join(df[col].unique())
JoinedUnique(t, col) == JoinLabels(Unique([i \in DOMAIN t.rows |-> t.rows[i][col]]))

\* len(set(numerator_broadcast) & set(denominator_broadcast)) > 0
\* a faulty test: one shared column is let through
broadcasts_overlap_twice(nb, db) == Cardinality(Range(nb) \cap Range(db)) > 1

broadcasts_overlap(nb, db) == Cardinality(Range(nb) \cap Range(db)) > 0

\* the columns each side is stratified by
numerator_strata(st, nb) == st \o nb
\* a faulty denominator: stratified by its broadcast columns only
denominator_strata_forgets_strata(st, db) == db
denominator_strata(st, db) == st \o db

\* record_inputs is None or a Scalar holding True or False
ratio(numerator, denominator, strata, multiplier, numerator_broadcast, denominator_broadcast, drop, record_inputs, reset) ==
    Bind(_ensure_columns_not_levels(numerator, <<>>), LAMBDA num0 :
    Bind(_ensure_columns_not_levels(denominator, <<>>), LAMBDA den0 :
        LET nb == _ensure_iterable(numerator_broadcast, num0, List(<<>>))
            db == _ensure_iterable(denominator_broadcast, den0, List(<<>>))
            rec == IF record_inputs = None THEN reset ELSE record_inputs.val
        IN  IF broadcasts_overlap(nb, db)
                THEN Raise("ValueError", "ratio: broadcast columns not disjoint")
            ELSE IF rec /\ (MEASURE_COLUMN \notin Range(num0.columns)
                            \/ MEASURE_COLUMN \notin Range(den0.columns))
                THEN Raise("KeyError", "ratio: measure")
            ELSE
                LET st == _ensure_iterable(strata, den0, None)
                IN  Bind(stratify(num0, List(numerator_strata(st, nb)), Label(VALUE_COLUMN), FALSE), LAMBDA num :
                    Bind(stratify(den0, List(denominator_strata(st, db)), Label(VALUE_COLUMN), FALSE), LAMBDA den :
                    Bind(Arith(num, den, "/", "ratio: divide"), LAMBDA quotient :
                        LET scaled == Scale(quotient, multiplier)
                            kept == IF drop THEN dropna(scaled) ELSE scaled
                            recorded ==
                                IF rec THEN
                                    AssignColumn(
                                        AssignColumn(
                                            AssignColumn(kept, "numerator_measure",
                                                         JoinedUnique(num0, MEASURE_COLUMN)),
                                            "denominator_measure",
                                            JoinedUnique(den0, MEASURE_COLUMN)),
                                        "multiplier", multiplier)
                                ELSE kept
                        IN  IF reset THEN reset_index(recorded, "ratio: reset_index")
                            ELSE recorded)))))

-----------------------------------------------------------------------------
(* difference, averted                                                     *)

\* a faulty difference: the sum of the two sides
subtract_adds(minuend, subtrahend) == Arith(minuend, subtrahend, "+", "difference: subtract")

\* minuend[[VALUE_COLUMN]] - subtrahend[[VALUE_COLUMN]]
subtract(minuend, subtrahend) == Arith(minuend, subtrahend, "-", "difference: subtract")

\* a faulty annotation: the two column names exchanged
annotation_exchanged(minuend_id, subtrahend_id) ==
    IF minuend_id # None THEN <<"subtracted_value", minuend_id.val>>
    ELSE <<"subtracted_from", subtrahend_id.val>>

\* the name and the value of the column that records the fixed id
annotation(minuend_id, subtrahend_id) ==
    IF minuend_id # None THEN <<"subtracted_from", minuend_id.val>>
    ELSE <<"subtracted_value", subtrahend_id.val>>

difference(measure, identifier_col, minuend_id, subtrahend_id) ==
    IF minuend_id = None /\ subtrahend_id = None
        THEN Raise("ValueError", "difference: no id")
    ELSE
    LET minuend0 ==
            IF minuend_id # None
                THEN FilterRows(measure, identifier_col, minuend_id.val, TRUE, "difference")
            ELSE FilterRows(measure, identifier_col, subtrahend_id.val, FALSE, "difference")
        subtrahend0 ==
            IF subtrahend_id # None
                THEN FilterRows(measure, identifier_col, subtrahend_id.val, TRUE, "difference")
            ELSE FilterRows(measure, identifier_col, minuend_id.val, FALSE, "difference")
        index_columns == Without(measure.columns, {identifier_col, VALUE_COLUMN})
        colname == annotation(minuend_id, subtrahend_id)[1]
        id == annotation(minuend_id, subtrahend_id)[2]
    IN  Bind(minuend0, LAMBDA m0 :
        Bind(subtrahend0, LAMBDA s0 :
        Bind(set_index(m0, index_columns, FALSE, "difference: set_index"), LAMBDA m1 :
        Bind(set_index(s0, index_columns, FALSE, "difference: set_index"), LAMBDA s1 :
        Bind(IF minuend_id = None
                THEN set_index(m1, <<identifier_col>>, TRUE, "difference") ELSE m1, LAMBDA m2 :
        Bind(IF minuend_id = None
                THEN s1 ELSE set_index(s1, <<identifier_col>>, TRUE, "difference"), LAMBDA s2 :
        Bind(SelectColumns(m2, <<VALUE_COLUMN>>, "difference"), LAMBDA m3 :
        Bind(SelectColumns(s2, <<VALUE_COLUMN>>, "difference"), LAMBDA s3 :
        Bind(subtract(m3, s3), LAMBDA d0 :
        Bind(reset_index(d0, "difference"), LAMBDA d1 :
            InsertColumn(d1, get_loc(d1.columns, identifier_col) + 1, colname, id)))))))))))

\* a faulty averted: the baseline is both minuend and subtrahend
averted_from_itself(measure, baseline_scenario, scenario_col) ==
    LET col == IF scenario_col = None THEN SCENARIO_COLUMN ELSE scenario_col.name
    IN  difference(measure, col, Scalar(baseline_scenario), Scalar(baseline_scenario))

averted(measure, baseline_scenario, scenario_col) ==
    LET col == IF scenario_col = None THEN SCENARIO_COLUMN ELSE scenario_col.name
    IN  difference(measure, col, Scalar(baseline_scenario), None)

-----------------------------------------------------------------------------
(* describe, get_mean_lower_upper                                          *)

RECURSIVE InsertSorted(_, _)
InsertSorted(s, x) ==
    IF s = <<>> THEN <<x>>
    ELSE IF Less(x, Head(s)) THEN <<x>> \o s
    ELSE <<Head(s)>> \o InsertSorted(Tail(s), x)

RECURSIVE SortCells(_)
SortCells(s) == IF s = <<>> THEN <<>> ELSE InsertSorted(SortCells(Tail(s)), Head(s))

\* the q = p/1000 quantile of sorted cells, by linear interpolation
Quantile(sorted, p) ==
    LET pos == (Len(sorted) - 1) * p
        lo == (pos \div 1000) + 1
        frac == pos % 1000
    IN  IF frac = 0 THEN sorted[lo]
        ELSE Add(sorted[lo], Div(Mul(Sub(sorted[lo + 1], sorted[lo]), frac), Num(1000)))

Mean(cells) == Div(SumCells(cells), Num(Len(cells)))

\* the sample variance (the square of describe's std; NaN for one cell)
Variance(cells) ==
    LET m == Mean(cells)
        sq == [i \in DOMAIN cells |->
                LET dev == Sub(cells[i], m) IN Norm(dev[1] * dev[1], dev[2] * dev[2])]
    IN  Div(SumCells(sq), Num(Len(cells) - 1))

DescribeColumns == <<"count", "mean", "std", "min", "2.5%", "50%", "97.5%", "max">>

\* Series.describe(percentiles=[.025, .975]) of one group; the std cell
\* holds the square of the standard deviation
DescribeCells(cells) ==
    LET sorted == SortCells(cells)
    IN  [c \in Range(DescribeColumns) |->
            CASE c = "count" -> Num(Len(cells))
              [] c = "mean" -> Mean(cells)
              [] c = "std" -> Variance(cells)
              [] c = "min" -> sorted[1]
              [] c = "2.5%" -> Quantile(sorted, 25)
              [] c = "50%" -> Quantile(sorted, 500)
              [] c = "97.5%" -> Quantile(sorted, 975)
              [] c = "max" -> sorted[Len(sorted)]]

\* describe(df) with no keyword argument
describe(t) ==
    LET excluded_cols == <<DRAW_COLUMN, VALUE_COLUMN>>
    IN  Bind(_ensure_columns_not_levels(t, excluded_cols), LAMBDA t1 :
            LET groupby_cols == IndexDifference(t1.columns, excluded_cols)
                present == {KeyOf(t1.rows[i], groupby_cols) : i \in DOMAIN t1.rows}
                keys == SortKeys(present)
            IN  IF groupby_cols = <<>> /\ t1.rows # <<>> THEN Raise("ValueError", "describe")
                ELSE IF VALUE_COLUMN \notin Range(t1.columns) THEN Raise("KeyError", "describe")
                ELSE [columns |-> DescribeColumns, index |-> groupby_cols,
                      rows |-> [i \in DOMAIN keys |->
                        LET members == SelectSeq(t1.rows,
                                            LAMBDA r : KeyOf(r, groupby_cols) = keys[i])
                            stats == DescribeCells(
                                        [j \in DOMAIN members |-> members[j][VALUE_COLUMN]])
                        IN  [c \in Range(groupby_cols) \cup Range(DescribeColumns) |->
                                IF c \in Range(groupby_cols)
                                    THEN keys[i][get_loc(groupby_cols, c) + 1]
                                ELSE stats[c]]]])

\* the default colname_mapper, as its keys and their new names
colname_mapper_keys == <<"mean", "2.5%", "97.5%">>
colname_mapper(c) ==
    CASE c = "mean" -> "mean" [] c = "2.5%" -> "lower" [] c = "97.5%" -> "upper" [] OTHER -> c

\* df.rename(columns=colname_mapper)
RenameColumns(t) ==
    [columns |-> [i \in DOMAIN t.columns |-> colname_mapper(t.columns[i])],
     index |-> t.index,
     rows |-> [i \in DOMAIN t.rows |->
                [c \in {colname_mapper(x) : x \in DOMAIN t.rows[i]} |->
                    t.rows[i][CHOOSE x \in DOMAIN t.rows[i] : colname_mapper(x) = c]]]]

get_mean_lower_upper(described_data) ==
    Bind(SelectColumns(described_data, colname_mapper_keys, "get_mean_lower_upper"), LAMBDA x :
        reset_index(RenameColumns(x), "get_mean_lower_upper"))

-----------------------------------------------------------------------------
(* The caller: the DataFrames it holds and the arguments it passes         *)

\* the codes of the labels of each identifier column
\* (scenario: 10 = 'baseline', 11 = 'intervention'; measure: 30 = 'deaths',
\* 31 = 'person_time')
IdDomain(c) ==
    CASE c = DRAW_COLUMN -> {0}
      [] c = SCENARIO_COLUMN -> {10, 11}
      [] c = MEASURE_COLUMN -> {30, 31}

\* the column layouts of the DataFrames the caller holds
Schemas ==
    { <<DRAW_COLUMN, SCENARIO_COLUMN, MEASURE_COLUMN, VALUE_COLUMN>>,
      <<DRAW_COLUMN, SCENARIO_COLUMN, VALUE_COLUMN>>,
      <<SCENARIO_COLUMN, VALUE_COLUMN>> }

RowsOf(schema) ==
    LET ids == Range(schema) \ {VALUE_COLUMN}
        keys == {k \in [ids -> UNION {IdDomain(c) : c \in ids}] :
                    \A c \in ids : k[c] \in IdDomain(c)}
    IN  {[c \in Range(schema) |-> IF c = VALUE_COLUMN THEN Num(v) ELSE k[c]] :
            k \in keys, v \in 0..MaxValue}

\* the cells of a row in column order, the value as its integer
RowCells(row, schema) ==
    [i \in 1..Len(schema) |->
        IF schema[i] = VALUE_COLUMN THEN row[VALUE_COLUMN][1] ELSE row[schema[i]]]

\* the caller's DataFrames are sorted by their columns; two rows may have
\* the same identifiers
TablesOf(schema) ==
    {[columns |-> schema, index |-> <<>>, rows |-> rows] :
        rows \in {r \in UNION {[1..n -> RowsOf(schema)] : n \in 1..MaxRows} :
                    \A i \in 1..(Len(r) - 1) :
                        ~LexLess(RowCells(r[i + 1], schema), RowCells(r[i], schema))}}

Tables == UNION {TablesOf(schema) : schema \in Schemas}

IndexColumnChoices ==
    { DEFAULT_INDEX_COLUMNS, <<SCENARIO_COLUMN>>,
      <<MEASURE_COLUMN>> \o DEFAULT_INDEX_COLUMNS }


\* what the caller passes as a column or a list of columns
MarginalizedArgs ==
    { Label(MEASURE_COLUMN), Label(SCENARIO_COLUMN), Label(DRAW_COLUMN), Label("sex"),
      List(<<>>), List(<<DRAW_COLUMN, MEASURE_COLUMN>>) }
StrataArgs ==
    { List(<<>>), Label(MEASURE_COLUMN), List(<<DRAW_COLUMN>>), Label(SCENARIO_COLUMN),
      Label("sex") }
IncludeArgs == { None, List(<<>>), Label(MEASURE_COLUMN), List(<<"sex">>) }
ExcludeArgs == { None, List(<<>>), Label(MEASURE_COLUMN), List(<<DRAW_COLUMN, "sex">>) }
BroadcastArgs == { None, Label(MEASURE_COLUMN), List(<<DRAW_COLUMN>>) }

\* the ids the caller passes to difference and averted for a column
IdArgs(col) == IF col \in {DRAW_COLUMN, SCENARIO_COLUMN, MEASURE_COLUMN}
               THEN {Scalar(v) : v \in IdDomain(col)} ELSE {Scalar(20)}

\* the numerator and the denominator of a ratio are the caller's DataFrame
\* or its rows of one measure: df[df.measure == m]
Parts == { <<None, None>>, <<Scalar(30), Scalar(31)>> }
Part(t, sel) ==
    IF sel = None THEN t ELSE FilterRows(t, MEASURE_COLUMN, sel.val, TRUE, "caller")

\* the arguments of a call of ratio: one differs from the call
\* ratio(numerator, denominator, []), or the two broadcast lists do
NonDefaults(a) ==
    (IF a.strata # List(<<>>) THEN 1 ELSE 0)
    + (IF a.multiplier # 1 THEN 1 ELSE 0)
    + (IF a.numerator_broadcast # None THEN 1 ELSE 0)
    + (IF a.denominator_broadcast # None THEN 1 ELSE 0)
    + (IF a.dropna THEN 1 ELSE 0)
    + (IF a.record_inputs # None THEN 1 ELSE 0)
    + (IF ~a.reset_index THEN 1 ELSE 0)

RatioArgs ==
    {a \in [strata : {List(<<>>), Label(MEASURE_COLUMN)},
            multiplier : {1, 100},
            numerator_broadcast : BroadcastArgs,
            denominator_broadcast : BroadcastArgs,
            dropna : BOOLEAN,
            record_inputs : {None, Scalar(FALSE)},
            reset_index : BOOLEAN] :
        \/ NonDefaults(a) <= 1
        \/ /\ NonDefaults(a) = 2
           /\ a.numerator_broadcast # None}

\* the columns ratio groups one side by
RatioGroupColumns(a, broadcast) ==
    method1(a.strata, df) \o _ensure_iterable(broadcast, df, List(<<>>)) \o INDEX_COLUMNS

-----------------------------------------------------------------------------
(* The calls.  A call is made on the caller's DataFrame once the caller   *)
(* holds no result, or, chained, on the result of the previous call:       *)
(* marginalize on a column the result still has or on the column a ratio   *)
(* was broadcast over, stratify on the result of one marginalize,          *)
(* get_mean_lower_upper on the result of describe.                         *)

Chained(fns) ==
    /\ calls # <<>>
    /\ IsTable(out)
    /\ calls[Len(calls)].fn \in fns

Fresh == out = None

Input(chained) == IF chained THEN out ELSE df
Record(chained, c) == IF chained THEN Append(calls, c) ELSE <<c>>

set_global_index_columns(index_columns) ==
    /\ Fresh
    /\ INDEX_COLUMNS' = index_columns
    /\ calls' = <<[fn |-> "set_global_index_columns", index_columns |-> index_columns]>>
    /\ out' = None
    /\ UNCHANGED df

value_call(include, exclude) ==
    /\ Fresh
    /\ out' = value(df, include, exclude, Label(VALUE_COLUMN))
    /\ calls' = <<[fn |-> "value", include |-> include, exclude |-> exclude]>>
    /\ UNCHANGED <<INDEX_COLUMNS, df>>

marginalize_call(chained, marginalized_cols, reset) ==
    /\ IF chained
        THEN /\ \/ Chained({"marginalize"})
                \/ /\ Chained({"ratio"})
                   /\ Len(calls) = 1
                   /\ calls[1].args.numerator_broadcast # None
                   /\ method1(marginalized_cols, out)
                        = method1(calls[1].args.numerator_broadcast, out)
             /\ Range(method1(marginalized_cols, out)) \subseteq Labels(out)
        ELSE Fresh
    /\ out' = marginalize(Input(chained), marginalized_cols, Label(VALUE_COLUMN), reset)
    /\ calls' = Record(chained, [fn |-> "marginalize", marginalized_cols |-> marginalized_cols,
                                 reset_index |-> reset])
    /\ UNCHANGED <<INDEX_COLUMNS, df>>

stratify_call(chained, strata, reset) ==
    /\ IF chained THEN Chained({"marginalize"}) /\ Len(calls) = 1 ELSE Fresh
    /\ out' = stratify(Input(chained), strata, Label(VALUE_COLUMN), reset)
    /\ calls' = Record(chained, [fn |-> "stratify", strata |-> strata, reset_index |-> reset])
    /\ UNCHANGED <<INDEX_COLUMNS, df>>

ratio_call(parts, a) ==
    /\ Fresh
    /\ parts # <<None, None>> => MEASURE_COLUMN \in Range(df.columns)
    /\ \/ Range(_ensure_iterable(a.numerator_broadcast, df, List(<<>>)))
            \cap Range(_ensure_iterable(a.denominator_broadcast, df, List(<<>>))) # {}
       \/ /\ NoDup(RatioGroupColumns(a, a.numerator_broadcast))
          /\ NoDup(RatioGroupColumns(a, a.denominator_broadcast))
    /\ out' = ratio(Part(df, parts[1]), Part(df, parts[2]), a.strata, a.multiplier,
                    a.numerator_broadcast, a.denominator_broadcast, a.dropna,
                    a.record_inputs, a.reset_index)
    /\ calls' = <<[fn |-> "ratio", parts |-> parts, args |-> a]>>
    /\ UNCHANGED <<INDEX_COLUMNS, df>>

difference_call(identifier_col, minuend_id, subtrahend_id) ==
    /\ Fresh
    /\ out' = difference(df, identifier_col, minuend_id, subtrahend_id)
    /\ calls' = <<[fn |-> "difference", identifier_col |-> identifier_col,
                   minuend_id |-> minuend_id, subtrahend_id |-> subtrahend_id]>>
    /\ UNCHANGED <<INDEX_COLUMNS, df>>

averted_call(baseline_scenario, scenario_col) ==
    /\ Fresh
    /\ out' = averted(df, baseline_scenario, scenario_col)
    /\ calls' = <<[fn |-> "averted", baseline_scenario |-> baseline_scenario,
                   scenario_col |-> scenario_col]>>
    /\ UNCHANGED <<INDEX_COLUMNS, df>>

describe_call ==
    /\ Fresh
    /\ out' = describe(df)
    /\ calls' = <<[fn |-> "describe"]>>
    /\ UNCHANGED <<INDEX_COLUMNS, df>>

get_mean_lower_upper_call(chained) ==
    /\ IF chained THEN Chained({"describe"}) ELSE Fresh
    /\ out' = get_mean_lower_upper(Input(chained))
    /\ calls' = Record(chained, [fn |-> "get_mean_lower_upper"])
    /\ UNCHANGED <<INDEX_COLUMNS, df>>

\* the caller drops the result it holds
Discard ==
    /\ out # None
    /\ out' = None
    /\ calls' = <<>>
    /\ UNCHANGED <<INDEX_COLUMNS, df>>

-----------------------------------------------------------------------------

Init ==
    /\ INDEX_COLUMNS = DEFAULT_INDEX_COLUMNS
    /\ df \in Tables
    /\ calls = <<>>
    /\ out = None

Next ==
    \/ \E index_columns \in IndexColumnChoices : set_global_index_columns(index_columns)
    \/ \E include \in IncludeArgs, exclude \in ExcludeArgs : value_call(include, exclude)
    \/ \E cols \in MarginalizedArgs, reset \in BOOLEAN : marginalize_call(FALSE, cols, reset)
    \/ \E col \in {DRAW_COLUMN, SCENARIO_COLUMN, MEASURE_COLUMN} :
            marginalize_call(TRUE, Label(col), TRUE)
    \/ \E strata \in StrataArgs, reset \in BOOLEAN : stratify_call(FALSE, strata, reset)
    \/ \E strata \in StrataArgs : stratify_call(TRUE, strata, TRUE)
    \/ \E parts \in Parts, a \in RatioArgs : ratio_call(parts, a)
    \/ \E col \in {SCENARIO_COLUMN, MEASURE_COLUMN, "sex"} :
        \E minuend_id \in {None} \cup IdArgs(col), subtrahend_id \in {None} \cup IdArgs(col) :
            difference_call(col, minuend_id, subtrahend_id)
    \/ \E col \in {None, Label(MEASURE_COLUMN)} :
        \E baseline \in IdDomain(IF col = None THEN SCENARIO_COLUMN ELSE col.name) :
            averted_call(baseline, col)
    \/ describe_call
    \/ \E chained \in BOOLEAN : get_mean_lower_upper_call(chained)
    \/ Discard

Spec == Init /\ [][Next]_vars

-----------------------------------------------------------------------------
(* Properties                                                              *)

\* the labels a column argument names
Cols(arg) == Range(method1(arg, df))

\* the rows of df are uniquely identified by their identifier columns
UniqueRows ==
    \A i, j \in DOMAIN df.rows :
        KeyOf(df.rows[i], Without(df.columns, {VALUE_COLUMN}))
            = KeyOf(df.rows[j], Without(df.columns, {VALUE_COLUMN})) => i = j

\* the sum of the value column over the rows of t that agree with row on cols
TotalAt(t, cols, row) ==
    LET members == SelectSeq(t.rows, LAMBDA r : \A c \in Range(cols) : r[c] = row[c])
    IN  SumCells([i \in DOMAIN members |-> members[i][VALUE_COLUMN]])

GrandTotal(t) == SumCells([i \in DOMAIN t.rows |-> t.rows[i][VALUE_COLUMN]])

\* C1: for a DataFrame that has every global index column, marginalizing
\* columns M and then stratifying the result by S, with M disjoint from S
\* and from the global index columns, returns what stratifying the
\* DataFrame by S directly returns: the same rows with the same sums.
C1_MarginalizeThenStratify ==
    ( /\ Len(calls) = 2
      /\ calls[1].fn = "marginalize"
      /\ calls[2].fn = "stratify"
      /\ Range(INDEX_COLUMNS) \subseteq Range(df.columns)
      /\ Cols(calls[1].marginalized_cols)
            \cap (Cols(calls[2].strata) \cup Range(INDEX_COLUMNS)) = {} )
    => out = stratify(df, calls[2].strata, Label(VALUE_COLUMN), calls[2].reset_index)

\* a column of a DataFrame with uniquely identified rows was marginalized
\* out, the result stratified, and a row of the outcome is the sum of two rows
C1_Witness ==
    /\ UniqueRows
    /\ Len(calls) = 2
    /\ calls[1].fn = "marginalize"
    /\ calls[2].fn = "stratify"
    /\ Range(INDEX_COLUMNS) \subseteq Range(df.columns)
    /\ Cols(calls[1].marginalized_cols) # {}
    /\ Cols(calls[1].marginalized_cols) \subseteq Range(df.columns)
    /\ Cols(calls[1].marginalized_cols)
            \cap (Cols(calls[2].strata) \cup Range(INDEX_COLUMNS)) = {}
    /\ IsTable(out)
    /\ \E i \in DOMAIN out.rows : out.rows[i][VALUE_COLUMN] = Num(2)

\* C2: once marginalize has been applied, one call after another, to
\* every identifier column of a DataFrame, the result is one row whose
\* value is the sum of the DataFrame's value column.
C2_RepeatedMarginalizeGivesGrandTotal ==
    ( /\ calls # <<>>
      /\ \A i \in DOMAIN calls : calls[i].fn = "marginalize"
      /\ (Range(df.columns) \ {VALUE_COLUMN})
            \subseteq UNION {Cols(calls[i].marginalized_cols) : i \in DOMAIN calls} )
    => /\ IsTable(out)
       /\ Len(out.rows) = 1
       /\ out.rows[1][VALUE_COLUMN] = GrandTotal(df)

\* C3: ratio of a DataFrame to itself with multiplier 1 and no broadcast
\* columns has value 1 in every row whose summed denominator is not 0.
C3_RatioToItselfIsOne ==
    ( /\ Len(calls) = 1
      /\ calls[1].fn = "ratio"
      /\ calls[1].parts[1] = calls[1].parts[2]
      /\ calls[1].args.multiplier = 1
      /\ calls[1].args.numerator_broadcast = None
      /\ calls[1].args.denominator_broadcast = None
      /\ IsTable(out) )
    => \A i \in DOMAIN out.rows :
        TotalAt(Part(df, calls[1].parts[2]),
                method1(calls[1].args.strata, df) \o INDEX_COLUMNS,
                out.rows[i]) # Num(0)
            => out.rows[i][VALUE_COLUMN] = Num(1)

\* a ratio of a DataFrame to itself, stratified by measure, with a row
\* whose denominator is the sum of two rows
C3_Witness ==
    /\ Len(calls) = 1
    /\ calls[1].fn = "ratio"
    /\ calls[1].parts[1] = calls[1].parts[2]
    /\ calls[1].args.multiplier = 1
    /\ calls[1].args.numerator_broadcast = None
    /\ calls[1].args.denominator_broadcast = None
    /\ calls[1].args.strata = Label(MEASURE_COLUMN)
    /\ IsTable(out)
    /\ \E i \in DOMAIN out.rows :
        /\ TotalAt(df, <<MEASURE_COLUMN>> \o INDEX_COLUMNS, out.rows[i]) = Num(2)
        /\ out.rows[i][VALUE_COLUMN] = Num(1)

\* the identifier columns of df other than col
Remaining(col) == Without(df.columns, {col, VALUE_COLUMN})

\* the values, in ascending order, that t has at key on cols, NaN left out
DefinedAt(t, cols, key) ==
    LET members == SelectSeq(t.rows, LAMBDA r :
                        KeyOf(r, cols) = key /\ ~IsNaN(r[VALUE_COLUMN]))
    IN  SortCells([i \in DOMAIN members |-> members[i][VALUE_COLUMN]])

NegAll(s) == SortCells([i \in DOMAIN s |-> Neg(s[i])])

\* the last call is difference with both ids given
BothIds ==
    /\ Len(calls) = 1
    /\ calls[1].fn = "difference"
    /\ calls[1].minuend_id # None
    /\ calls[1].subtrahend_id # None

\* the difference with minuend and subtrahend exchanged
Exchanged ==
    difference(df, calls[1].identifier_col, calls[1].subtrahend_id, calls[1].minuend_id)

\* C4: difference(measure, col, minuend_id=A, subtrahend_id=B) is the
\* negation of difference(measure, col, minuend_id=B, subtrahend_id=A):
\* at each combination of the remaining identifier columns the values of
\* the one are the negated values of the other; when rows are uniquely
\* identified, the one call raises exactly when the other does.
C4_DifferenceAntisymmetric ==
    BothIds =>
        /\ UniqueRows => (IsError(out) <=> IsError(Exchanged))
        /\ (IsTable(out) /\ IsTable(Exchanged)) =>
            \A i \in DOMAIN df.rows :
                LET cols == Remaining(calls[1].identifier_col)
                    key == KeyOf(df.rows[i], cols)
                IN  DefinedAt(out, cols, key) = NegAll(DefinedAt(Exchanged, cols, key))

\* a difference of two distinct ids over uniquely identified rows with a
\* row of value 1, which the exchanged difference has as -1
C4_Witness ==
    /\ BothIds
    /\ calls[1].minuend_id # calls[1].subtrahend_id
    /\ UniqueRows
    /\ IsTable(out)
    /\ IsTable(Exchanged)
    /\ \E i \in DOMAIN out.rows : out.rows[i][VALUE_COLUMN] = Num(1)
    /\ \E i \in DOMAIN Exchanged.rows : Exchanged.rows[i][VALUE_COLUMN] = Num(0 - 1)

\* the last call is averted, on column AvertedCol
IsAverted == Len(calls) = 1 /\ calls[1].fn = "averted"
AvertedCol ==
    IF calls[1].scenario_col = None THEN SCENARIO_COLUMN ELSE calls[1].scenario_col.name

\* every row of df belongs to the baseline scenario of the averted call
OnlyBaseline ==
    /\ AvertedCol \in Range(df.columns)
    /\ \A i \in DOMAIN df.rows : df.rows[i][AvertedCol] = calls[1].baseline_scenario

\* C5 as stated: averted with the baseline as the scenario subtracted from
\* it (a table whose only scenario is the baseline) has value 0 in every row.
C5_AvertedFromItselfIsZero ==
    (IsAverted /\ OnlyBaseline /\ IsTable(out)) =>
        \A i \in DOMAIN out.rows : out.rows[i][VALUE_COLUMN] = Num(0)

\* C5, amended: difference with the same id as minuend and subtrahend has
\* value 0 in every row when rows are uniquely identified.  averted never
\* subtracts the baseline from itself: it is difference with only the
\* minuend given, no row of its result belongs to the baseline scenario,
\* and over a table whose only scenario is the baseline no row of its
\* result has a value.
C5_SameIdIsZero ==
    /\ (BothIds /\ calls[1].minuend_id = calls[1].subtrahend_id
            /\ UniqueRows /\ IsTable(out)) =>
        \A i \in DOMAIN out.rows : out.rows[i][VALUE_COLUMN] = Num(0)
    /\ IsAverted =>
        /\ out = difference(df, AvertedCol, Scalar(calls[1].baseline_scenario), None)
        /\ IsTable(out) =>
            \A i \in DOMAIN out.rows :
                /\ out.rows[i][AvertedCol] # calls[1].baseline_scenario
                /\ OnlyBaseline => IsNaN(out.rows[i][VALUE_COLUMN])

\* averted over a table whose only scenario is the baseline returned a
\* row, and its value is missing
C5_Witness ==
    /\ IsAverted
    /\ OnlyBaseline
    /\ IsTable(out)
    /\ \E i \in DOMAIN out.rows : IsNaN(out.rows[i][VALUE_COLUMN])

\* the last call is value
IsValue == Len(calls) = 1 /\ calls[1].fn = "value"

\* the labels of an optional column argument
ArgCols(arg) == IF arg = None THEN {} ELSE Cols(arg)

\* C6: value leaves the value column as the only column, keeps every row,
\* and sets the index by one of three modes: with neither argument, all
\* columns but the value column; with include alone, the included columns
\* followed by the global index columns; with exclude alone, all columns
\* but the excluded ones and the value column.
C6_ValueIndexModes ==
    IsValue =>
        /\ (calls[1].include = None) => IsTable(out)
        /\ IsTable(out) =>
            /\ out.columns = <<VALUE_COLUMN>>
            /\ Len(out.rows) = Len(df.rows)
            /\ \A i \in DOMAIN out.rows :
                /\ DOMAIN out.rows[i] = Range(out.index) \cup {VALUE_COLUMN}
                /\ \A c \in DOMAIN out.rows[i] : out.rows[i][c] = df.rows[i][c]
            /\ (calls[1].include = None /\ calls[1].exclude = None) =>
                /\ NoDup(out.index)
                /\ Range(out.index) = Range(df.columns) \ {VALUE_COLUMN}
            /\ (calls[1].include # None /\ calls[1].exclude = None) =>
                out.index = method1(calls[1].include, df) \o INDEX_COLUMNS
            /\ (calls[1].include = None /\ calls[1].exclude # None) =>
                /\ NoDup(out.index)
                /\ Range(out.index)
                    = Range(df.columns) \ ({VALUE_COLUMN} \cup ArgCols(calls[1].exclude))

\* value with include = 'measure' indexed a table by measure and the two
\* global index columns
C6_Witness ==
    /\ IsValue
    /\ calls[1].include = Label(MEASURE_COLUMN)
    /\ calls[1].exclude = None
    /\ IsTable(out)
    /\ out.index = <<MEASURE_COLUMN, DRAW_COLUMN, SCENARIO_COLUMN>>
    /\ out.columns = <<VALUE_COLUMN>>

\* the call a step makes
Made == calls'[Len(calls')]

\* the columns that key a result: its index, or its leading columns
KeyedBy(t, n) == IF t.index # <<>> THEN t.index ELSE SubSeq(t.columns, 1, n)

\* a step calls one of the named functions and the call returns a table
Returns(fns) ==
    /\ calls' # calls
    /\ calls' # <<>>
    /\ Made.fn \in fns
    /\ IsTable(out')

\* C7: the global index columns are changed by set_global_index_columns
\* alone, which sets them to its argument, so they are the argument of the
\* latest such call whatever was called since; every call of stratify, of
\* ratio and of value with include keys its result by the given columns
\* followed by exactly the global index columns then in force.
C7_Step ==
    /\ INDEX_COLUMNS' =
        IF calls' # <<>> /\ Made.fn = "set_global_index_columns"
            THEN Made.index_columns ELSE INDEX_COLUMNS
    /\ Returns({"stratify"}) =>
        LET by == method1(Made.strata, df) \o INDEX_COLUMNS
        IN  KeyedBy(out', Len(by)) = by
    /\ (Returns({"ratio"}) /\ Made.args.numerator_broadcast = None
            /\ Made.args.denominator_broadcast = None) =>
        LET by == method1(Made.args.strata, df) \o INDEX_COLUMNS
        IN  KeyedBy(out', Len(by)) = by
    /\ Returns({"ratio"}) => Range(INDEX_COLUMNS) \subseteq Labels(out')
    /\ (Returns({"value"}) /\ Made.include # None) =>
        out'.index = method1(Made.include, df) \o INDEX_COLUMNS

C7_GlobalIndexColumns == [][C7_Step]_vars

\* after the global index columns were set to ['scenario'], stratify by
\* measure returned a table keyed by measure and scenario
C7_Witness ==
    /\ INDEX_COLUMNS = <<SCENARIO_COLUMN>>
    /\ Len(calls) = 1
    /\ calls[1].fn = "stratify"
    /\ calls[1].strata = Label(MEASURE_COLUMN)
    /\ IsTable(out)
    /\ KeyedBy(out, 2) = <<MEASURE_COLUMN, SCENARIO_COLUMN>>

\* C8: value raises a ValueError, and returns no table, whenever include
\* and exclude are both specified.
C8_ValueRejectsIncludeAndExclude ==
    (IsValue /\ calls[1].include # None /\ calls[1].exclude # None) =>
        out = Raise("ValueError", "value: include and exclude")

\* value was called with include and exclude both naming a column of the
\* table, and raised
C8_Witness ==
    /\ IsValue
    /\ calls[1].include = Label(MEASURE_COLUMN)
    /\ calls[1].exclude = Label(MEASURE_COLUMN)
    /\ MEASURE_COLUMN \in Range(df.columns)
    /\ IsError(out)
    /\ out.raised = "ValueError"

\* the last call is ratio
IsRatio == Len(calls) = 1 /\ calls[1].fn = "ratio"

\* the two broadcast arguments of the call name a common column
SharedBroadcast ==
    ArgCols(calls[1].args.numerator_broadcast)
        \cap ArgCols(calls[1].args.denominator_broadcast) # {}

NotDisjoint == Raise("ValueError", "ratio: broadcast columns not disjoint")

\* C9: ratio raises the ValueError of its disjointness check whenever
\* numerator_broadcast and denominator_broadcast share a column name, ahead
\* of whatever recording the inputs, stratifying or dividing would raise;
\* when the two are disjoint the check does not raise.
C9_BroadcastsMustBeDisjoint ==
    IsRatio => (out = NotDisjoint <=> SharedBroadcast)

\* ratio was called with 'measure' in both broadcast arguments on a table
\* that has no measure column, for which stratifying raises a KeyError,
\* and raised the ValueError of the check
C9_Witness ==
    /\ IsRatio
    /\ calls[1].args.numerator_broadcast = Label(MEASURE_COLUMN)
    /\ calls[1].args.denominator_broadcast = Label(MEASURE_COLUMN)
    /\ MEASURE_COLUMN \notin Range(df.columns)
    /\ IsError(stratify(df, Label(MEASURE_COLUMN), Label(VALUE_COLUMN), FALSE))
    /\ out = NotDisjoint

\* the last call is difference with exactly one id given
OneId ==
    /\ Len(calls) = 1
    /\ calls[1].fn = "difference"
    /\ (calls[1].minuend_id = None) # (calls[1].subtrahend_id = None)

\* the id given, the side it fixes, and the name of the column noting it
MinuendFixed == calls[1].minuend_id # None
FixedId == IF MinuendFixed THEN calls[1].minuend_id.val ELSE calls[1].subtrahend_id.val
NoteColumn == IF MinuendFixed THEN "subtracted_from" ELSE "subtracted_value"

\* the value for a row m of the fixed id and a row r of another id
Expected(m, r) ==
    IF MinuendFixed THEN Sub(m[VALUE_COLUMN], r[VALUE_COLUMN])
    ELSE Sub(r[VALUE_COLUMN], m[VALUE_COLUMN])

\* row k of the result stems from row m of the fixed id and row r of another
Stems(k, m, r) ==
    LET col == calls[1].identifier_col
    IN  /\ m[col] = FixedId
        /\ r[col] # FixedId
        /\ KeyOf(m, Remaining(col)) = KeyOf(r, Remaining(col))
        /\ out.rows[k][col] = r[col]
        /\ KeyOf(out.rows[k], Remaining(col)) = KeyOf(r, Remaining(col))
        /\ out.rows[k][VALUE_COLUMN] = Expected(m, r)

\* C10: difference with only minuend_id = A subtracts from the rows of A
\* every row of another id: for each row r of another id that matches a
\* row m of A on the remaining identifier columns the result has a row
\* with r's id and value m - r, and a column 'subtracted_from' equal to A
\* right after the identifier column.  With only subtrahend_id = B the
\* value is r - m and the column is 'subtracted_value', equal to B.  Every
\* value of the result arises in this way.
C10_OneIdBroadcast ==
    OneId =>
        /\ (UniqueRows /\ Remaining(calls[1].identifier_col) # <<>>
                /\ calls[1].identifier_col \in Range(df.columns)) => IsTable(out)
        /\ IsTable(out) =>
            /\ NoteColumn \in Range(out.columns)
            /\ get_loc(out.columns, NoteColumn)
                    = get_loc(out.columns, calls[1].identifier_col) + 1
            /\ \A k \in DOMAIN out.rows : out.rows[k][NoteColumn] = FixedId
            /\ \A i, j \in DOMAIN df.rows :
                (/\ df.rows[i][calls[1].identifier_col] = FixedId
                 /\ df.rows[j][calls[1].identifier_col] # FixedId
                 /\ KeyOf(df.rows[i], Remaining(calls[1].identifier_col))
                        = KeyOf(df.rows[j], Remaining(calls[1].identifier_col)))
                => \E k \in DOMAIN out.rows : Stems(k, df.rows[i], df.rows[j])
            /\ \A k \in DOMAIN out.rows :
                ~IsNaN(out.rows[k][VALUE_COLUMN]) =>
                    \E i, j \in DOMAIN df.rows : Stems(k, df.rows[i], df.rows[j])

\* difference with only minuend_id = 10 on column scenario returned a row
\* of scenario 11 with value 1 - 0
C10_Witness ==
    /\ OneId
    /\ calls[1].identifier_col = SCENARIO_COLUMN
    /\ calls[1].minuend_id = Scalar(10)
    /\ IsTable(out)
    /\ \E k \in DOMAIN out.rows :
        /\ out.rows[k][SCENARIO_COLUMN] = 11
        /\ out.rows[k]["subtracted_from"] = 10
        /\ out.rows[k][VALUE_COLUMN] = Num(1)

\* a ratio broadcast over columns of the numerator alone, none of them a
\* stratum or a global index column, was summed over those columns
SummedOverBroadcast ==
    /\ Len(calls) = 2
    /\ calls[1].fn = "ratio"
    /\ calls[2].fn = "marginalize"
    /\ calls[1].args.numerator_broadcast # None
    /\ calls[1].args.denominator_broadcast = None
    /\ Cols(calls[2].marginalized_cols) = Cols(calls[1].args.numerator_broadcast)
    /\ Cols(calls[1].args.numerator_broadcast)
            \cap (Cols(calls[1].args.strata) \cup Range(INDEX_COLUMNS)) = {}

\* the same ratio with numerator_broadcast = None
Unbroadcast ==
    LET a == calls[1].args
    IN  ratio(Part(df, calls[1].parts[1]), Part(df, calls[1].parts[2]), a.strata,
              a.multiplier, None, None, a.dropna, a.record_inputs, a.reset_index)

\* the strata and the global index columns of the ratio
RatioKey == method1(calls[1].args.strata, df) \o INDEX_COLUMNS

\* the combinations of strata and global index columns in the DataFrame
RatioKeys == {KeyOf(df.rows[i], RatioKey) : i \in DOMAIN df.rows}

\* C11: the ratio broadcast over a column c of the numerator that is not a
\* stratum, summed over c, has at every combination of strata and global
\* index columns the value of the ratio with numerator_broadcast = None.
C11_SumOverBroadcastIsUnbroadcast ==
    (SummedOverBroadcast /\ IsTable(out) /\ IsTable(Unbroadcast)) =>
        \A key \in RatioKeys :
            DefinedAt(out, RatioKey, key) = DefinedAt(Unbroadcast, RatioKey, key)

\* the two agree wherever the ratio with numerator_broadcast = None has a
\* value, and everywhere when dropna is True
C11_AgreeWhereDefined ==
    (SummedOverBroadcast /\ IsTable(out) /\ IsTable(Unbroadcast)) =>
        \A key \in RatioKeys :
            (calls[1].args.dropna \/ DefinedAt(Unbroadcast, RatioKey, key) # <<>>)
                => DefinedAt(out, RatioKey, key) = DefinedAt(Unbroadcast, RatioKey, key)

\* the last call is ratio with dropna = True and no denominator_broadcast,
\* and it returned a table
Dropped ==
    /\ IsRatio
    /\ calls[1].args.dropna
    /\ calls[1].args.denominator_broadcast = None
    /\ IsTable(out)

\* the numerator and the denominator of the call, and the columns each is
\* grouped by
Numerator == Part(df, calls[1].parts[1])
Denominator == Part(df, calls[1].parts[2])
NumeratorKey ==
    method1(calls[1].args.strata, df)
        \o _ensure_iterable(calls[1].args.numerator_broadcast, df, List(<<>>))
        \o INDEX_COLUMNS

\* t has a row that agrees with row on cols
HasKey(t, cols, row) == \E i \in DOMAIN t.rows : KeyOf(t.rows[i], cols) = KeyOf(row, cols)

\* the key of row is on both sides of the division
OnBothSides(row) ==
    /\ HasKey(Numerator, NumeratorKey, row)
    /\ HasKey(Denominator, RatioKey, row)

\* C12: with dropna = True no row of the ratio has a missing result: a row
\* is in the output exactly if its key is on both sides of the division
\* and the summed denominator of its stratum is not 0.
C12_DropnaDropsDivisionByZero ==
    Dropped =>
        /\ \A k \in DOMAIN out.rows :
            /\ ~IsNaN(out.rows[k][VALUE_COLUMN])
            /\ OnBothSides(out.rows[k])
            /\ TotalAt(Denominator, RatioKey, out.rows[k]) # Num(0)
        /\ \A i \in DOMAIN Numerator.rows :
            (/\ OnBothSides(Numerator.rows[i])
             /\ TotalAt(Denominator, RatioKey, Numerator.rows[i]) # Num(0))
            => HasKey(out, NumeratorKey, Numerator.rows[i])

\* what dropna = True does drop is the rows whose result is NaN: a row is in
\* the output exactly if its key is on both sides of the division and its
\* summed numerator and summed denominator are not both 0
C12_DropnaDropsNaN ==
    Dropped =>
        /\ \A k \in DOMAIN out.rows :
            /\ ~IsNaN(out.rows[k][VALUE_COLUMN])
            /\ OnBothSides(out.rows[k])
            /\ ~(/\ TotalAt(Denominator, RatioKey, out.rows[k]) = Num(0)
                 /\ TotalAt(Numerator, NumeratorKey, out.rows[k]) = Num(0))
        /\ \A i \in DOMAIN Numerator.rows :
            (/\ OnBothSides(Numerator.rows[i])
             /\ ~(/\ TotalAt(Denominator, RatioKey, Numerator.rows[i]) = Num(0)
                  /\ TotalAt(Numerator, NumeratorKey, Numerator.rows[i]) = Num(0)))
            => HasKey(out, NumeratorKey, Numerator.rows[i])

====
